---- MODULE Spec2Model ----
(***************************************************************************)
(* A model of the amber-api client (src/src/client.rs, src/src/error.rs).   *)
(*                                                                         *)
(* One shared client value (Amber) is used by a fixed set of callers.      *)
(* Each caller runs one logical call at a time: an endpoint method builds  *)
(* the path and the query and hands them to Amber::get, which builds the   *)
(* request, sends it (request.call()), and turns the transport's answer    *)
(* into the value the caller gets back.                                    *)
(*                                                                         *)
(* The transport is outside the repository.  It is modelled as a script    *)
(* fixed when the call starts: what the server would answer to the 1st,    *)
(* 2nd, 3rd ... request of that call.  The code decides how much of the    *)
(* script is ever consumed.                                                *)
(***************************************************************************)
EXTENDS Integers, Sequences, FiniteSets, TLC

VARIABLES
    env,        \* the process environment: the value of AMBER_API_KEY
    shown,      \* an AdvancedPrice the program displays, and its text
    client,     \* the Amber value: api_key, base_url, agent
    policy,     \* the retry options the documentation describes
    pc,         \* per caller: "idle", "in_flight" or "done"
    transport,  \* per caller: the script the server follows for this call
    sent,       \* per caller: the requests this logical call has issued
    slept,      \* per caller: the backoff waits this logical call has made
    result,     \* per caller: the value returned by get
    args,       \* per caller: the endpoint method called and its arguments
    answered    \* per caller: the answers this logical call has received

vars == <<env, shown, client, policy, pc, transport, sent, slept, result, args, answered>>

(***************************************************************************)
(* Bounds of the model.                                                    *)
(***************************************************************************)
\* Largest number of leading 429 answers in a transport script.
MaxLead == 2
\* Largest value of the documented "maximum retry attempts" option.
MaxRetries == 2

\* Largest number of objects in the array of a response body.
MaxItems == 2

\* The callers sharing the client.
Calls == {1, 2}

(***************************************************************************)
(* Values.                                                                 *)
(***************************************************************************)
None == "None"

\* client.rs:9
API_BASE_URL == "https://api.amber.com.au/v1/"

\* Values the AMBER_API_KEY variable / the builder's api_key may hold.
ApiKeys == {None, "psk_1"}

\* client.rs:34: what std::env::var("AMBER_API_KEY") can find: no such
\* variable, an empty value, or a key.
NotPresent == "NotPresent"
EnvValues == {NotPresent, "", "psk_1"}

\* HTTP statuses the server answers with.
Statuses == {200, 404, 429, 500}

\* Values of the rate-limit-reset header of a response (None: no header).
ResetHeaders == {None, "5", "30", "soon"}

\* A response body that is a JSON array of the objects `items`.
JsonArray(items) == [json |-> "array", items |-> items]

\* A response body that is no JSON array: JSON of another shape ("object"),
\* or text that is not JSON ("invalid").
JsonText(shape) == [json |-> shape, items |-> <<>>]

EmptyArray == JsonArray(<<>>)
NotAnArray == JsonText("object")
NotJson == JsonText("invalid")

\* Response bodies of the scripts: the empty array (decodes as an empty
\* Vec<T>), JSON of another shape than Vec<T>, text that is not JSON.
Bodies == {EmptyArray, NotAnArray, NotJson}

\* Failures of request.call() that produce no HTTP response.
TransportFailures == {"Io"}

\* A response of the server.
Response(status, reset, body) ==
    [failed |-> FALSE, status |-> status, reset |-> reset, body |-> body]

\* The transport failing without a response.
Failure(kind) == [failed |-> TRUE, kind |-> kind]

\* What a script ends with, once its leading 429 answers are consumed.
Finals ==
    {Response(200, None, b) : b \in Bodies}
        \cup {Response(404, None, EmptyArray)}
        \cup {Response(500, None, NotJson)}
        \cup {Failure(k) : k \in TransportFailures}

\* As the end of a script: the server answers 429 to every request.
Always429 == Response(429, None, NotJson)

\* A transport script: `lead` answers of 429 carrying the header `reset`,
\* then `final` for every later request (Always429: 429 with the header
\* `reset` again, written with lead = 0).  The header is None when the
\* script has no 429.
Scripts ==
    {s \in [lead : 0..MaxLead, reset : ResetHeaders, final : Finals \cup {Always429}] :
        /\ (s.lead = 0 /\ s.final # Always429) => s.reset = None
        /\ s.final = Always429 => s.lead = 0}

\* The script of a caller that has no call running.
NoScript == [lead |-> 0, reset |-> None, final |-> Always429]

\* What the server answers to the n-th request (n >= 1) of a call.
Answer(script, n) ==
    IF n <= script.lead \/ script.final = Always429
    THEN Response(429, script.reset, NotJson)
    ELSE script.final

(***************************************************************************)
(* error.rs: the values of AmberError, and Ok.                             *)
(***************************************************************************)
\* error.rs:22  Http(#[from] ureq::Error); `inner` names the ureq::Error
\* variant wrapped, `status` is the code of ureq::Error::StatusCode.
Http(inner, status) == [kind |-> "Http", inner |-> inner, status |-> status]

\* error.rs:29
RateLimitExceeded(secs) == [kind |-> "RateLimitExceeded", retry_after |-> secs]

\* error.rs:38-43
RateLimitExhausted(n, secs) ==
    [kind |-> "RateLimitExhausted", attempts |-> n, retry_after |-> secs]

\* error.rs:50-55
UnexpectedStatus(status, body) ==
    [kind |-> "UnexpectedStatus", status |-> status, body |-> body]

Ok(value) == [kind |-> "Ok", value |-> value]

NoResult == [kind |-> "NoResult"]

(***************************************************************************)
(* Option<T>.                                                              *)
(***************************************************************************)
\* Option::None and Option::Some(x) of an argument or of a decoded field.
Absent == <<>>

Some(x) == <<x>>

IsSome(o) == o # Absent

\* Option::map, as the endpoint methods use it (client.rs:135-137):
\* `mapped` is the closure applied to the value held, o[1].
map(o, mapped) == IF IsSome(o) THEN Some(mapped) ELSE Absent

(***************************************************************************)
(* Text.  Text the code formats or parses is a sequence of characters.     *)
(***************************************************************************)
Digits == <<"0", "1", "2", "3", "4", "5", "6", "7", "8", "9">>

IsDigit(ch) == \E d \in 1..Len(Digits) : Digits[d] = ch

DigitValue(ch) == (CHOOSE d \in 1..Len(Digits) : Digits[d] = ch) - 1

\* u32::to_string (client.rs:135-136): decimal, no sign, no leading zero.
RECURSIVE u32_to_string(_)
u32_to_string(n) ==
    IF n < 10
    THEN <<Digits[n + 1]>>
    ELSE u32_to_string(n \div 10) \o <<Digits[(n % 10) + 1]>>

\* The decimal number `width` digits wide, padded with zeros on the left.
RECURSIVE Padded(_, _)
Padded(n, width) ==
    IF width = 0
    THEN <<>>
    ELSE Padded(n \div 10, width - 1) \o <<Digits[(n % 10) + 1]>>

\* The number a non-empty sequence of digits denotes.
RECURSIVE DigitsValue(_)
DigitsValue(text) ==
    IF Len(text) = 0
    THEN 0
    ELSE 10 * DigitsValue(SubSeq(text, 1, Len(text) - 1))
             + DigitValue(text[Len(text)])

AllDigits(text) == \A i \in 1..Len(text) : IsDigit(text[i])

(***************************************************************************)
(* models.rs: the text form of an AdvancedPrice.                           *)
(***************************************************************************)
\* Prices in hundredths of a c/kWh: 0.00, 0.05, 1.23, 4.56 and 7.89.
Prices == {0, 5, 123, 456, 789}

\* models.rs:389-399: an AdvancedPrice; nothing orders its three members.
AdvancedPrices == [low : Prices, predicted : Prices, high : Prices]

NoText == <<>>

\* No AdvancedPrice is being displayed.
NothingShown == [price |-> Absent, text |-> NoText]

\* "{:.2}" of the price of n hundredths: the whole part, a point, and two
\* decimals.
format_2(n) == u32_to_string(n \div 100) \o <<".">> \o Padded(n % 100, 2)

\* models.rs:401-410: "L:{:.2} H:{:.2} P:{:.2} c/kWh" filled with low,
\* predicted and high, in this order.
AdvancedPrice_fmt(p) ==
    <<"L", ":">> \o format_2(p.low)
        \o <<" ", "H", ":">> \o format_2(p.predicted)
        \o <<" ", "P", ":">> \o format_2(p.high)
        \o <<" ", "c", "/", "k", "W", "h">>

(***************************************************************************)
(* models.rs: the arguments of the endpoint methods.                       *)
(***************************************************************************)
\* A jiff::civil::Date.
Date(year, month, day) == [year |-> year, month |-> month, day |-> day]

\* A date that prints without padding and one that needs it.
Dates == {Date(2021, 5, 5), Date(2024, 12, 31)}

\* Date's Display without the zero padding.
Date_to_string_unpadded(d) ==
    u32_to_string(d.year) \o <<"-">> \o u32_to_string(d.month)
        \o <<"-">> \o u32_to_string(d.day)

\* Date's Display, used by d.to_string() (client.rs:276-277, 457-458):
\* the ISO 8601 calendar form YYYY-MM-DD.
Date_to_string(d) ==
    Padded(d.year, 4) \o <<"-">> \o Padded(d.month, 2) \o <<"-">> \o Padded(d.day, 2)

\* models.rs:98-103
Resolutions == {"FiveMinute", "ThirtyMinute"}

\* A Display for Resolution that prints the length in seconds.
Resolution_to_string_seconds(r) ==
    CASE r = "FiveMinute" -> <<"3", "0", "0">>
      [] r = "ThirtyMinute" -> <<"1", "8", "0", "0">>

\* models.rs:105-113, impl Display for Resolution
Resolution_to_string(r) ==
    CASE r = "FiveMinute" -> <<"5">>
      [] r = "ThirtyMinute" -> <<"3", "0">>

\* models.rs:115-123, impl From<Resolution> for u32
Resolution_to_u32(r) ==
    CASE r = "FiveMinute" -> 5
      [] r = "ThirtyMinute" -> 30

\* models.rs:72-81
States == {"Nsw", "Vic", "Qld", "Sa"}

\* models.rs:83-93, impl Display for State
State_to_string(state) ==
    CASE state = "Nsw" -> "nsw"
      [] state = "Vic" -> "vic"
      [] state = "Qld" -> "qld"
      [] state = "Sa" -> "sa"

\* Site ids the callers pass.
SiteIds == {"S1", "S2"}

\* Values of the next / previous arguments (u32).
Counts == {0, 2, 3, 10}

OptionOf(S) == {Absent} \cup {Some(x) : x \in S}

\* The element type of the Vec each endpoint method returns.
ResultTypes == {"Site", "Interval", "Renewable", "Usage"}

\* The call of a caller that has no call running.
NoArgs == [method |-> "none", T |-> "Site"]

\* client.rs:184 sites(&self) -> Result<Vec<Site>>
sites_args == [method |-> "sites", T |-> "Site"]

\* client.rs:266-272
prices_args(site_id, start_date, end_date, resolution) ==
    [method |-> "prices", T |-> "Interval", site_id |-> site_id,
     start_date |-> start_date, end_date |-> end_date,
     resolution |-> resolution]

\* client.rs:365-371
current_prices_args(site_id, next, previous, resolution) ==
    [method |-> "current_prices", T |-> "Interval", site_id |-> site_id,
     resolution |-> resolution, next |-> next, previous |-> previous]

\* client.rs:125-131
current_renewables_args(state, next, previous, resolution) ==
    [method |-> "current_renewables", T |-> "Renewable",
     resolution |-> resolution, next |-> next, previous |-> previous,
     state |-> state]

\* client.rs:452-457
usage_args(site_id, start_date, end_date) ==
    [method |-> "usage", T |-> "Usage", site_id |-> site_id,
     start_date |-> start_date, end_date |-> end_date]

\* A query that sends every pair, an absent value as the empty text.
filter_map_keep_empty(pairs) ==
    [i \in 1..Len(pairs) |->
        <<pairs[i][1], IF IsSome(pairs[i][2]) THEN pairs[i][2][1] ELSE <<>>>>]

\* client.rs:134-141: the (key, Option<String>) pairs with a value, as
\* (key, value) pairs in the order given
\* (.into_iter().filter_map(|(k, v)| v.map(|val| (k, val)))).
filter_map(pairs) ==
    LET kept == SelectSeq(pairs, LAMBDA p : IsSome(p[2]))
    IN  [i \in 1..Len(kept) |-> <<kept[i][1], kept[i][2][1]>>]

(***************************************************************************)
(* models.rs: decoding (serde's derived Deserialize).                      *)
(*                                                                         *)
(* A JSON object is a record whose fields are the object's keys; a key the *)
(* object lacks is a field the record lacks.  A JSON string naming an enum *)
(* variant or an id is a string, a JSON string holding a date is text (a   *)
(* sequence of characters), a JSON string holding a timestamp is the       *)
(* instant it denotes, a JSON number is an integer.  Keys the struct does  *)
(* not name are ignored (no deny_unknown_fields in models.rs).             *)
(***************************************************************************)
\* A decoding that failed.
Err == [kind |-> "Err"]

Has(obj, key) == key \in DOMAIN obj

\* A field of type Option<T>: None when the key is missing, else what
\* decoding the value of the key as T gave (`decoded`).
decode_Option(obj, key, decoded) ==
    IF ~Has(obj, key)
    THEN Ok(Absent)
    ELSE IF decoded.kind = "Ok" THEN Ok(Some(decoded.value)) ELSE Err

\* A unit-variant enum with rename_all = "camelCase": `E` maps the JSON
\* name of each variant to the variant; any other name is an error.
decode_enum(E, name) ==
    IF name \in DOMAIN E THEN Ok(E[name]) ELSE Err

\* u32: a JSON integer that is not negative.
decode_u32(n) == IF n >= 0 THEN Ok(n) ELSE Err

\* f64, bool, String, Timestamp: the value as sent.
decode_plain(v) == Ok(v)

DaysIn(year, month) ==
    CASE month \in {4, 6, 9, 11} -> 30
      [] month = 2 ->
            IF (year % 4 = 0 /\ year % 100 # 0) \/ year % 400 = 0 THEN 29 ELSE 28
      [] OTHER -> 31

\* jiff::civil::Date from its JSON string: YYYY-MM-DD naming a day that
\* exists.
decode_Date(text) ==
    IF /\ Len(text) = 10
       /\ text[5] = "-"
       /\ text[8] = "-"
       /\ AllDigits(SubSeq(text, 1, 4) \o SubSeq(text, 6, 7) \o SubSeq(text, 9, 10))
    THEN LET year == DigitsValue(SubSeq(text, 1, 4))
             month == DigitsValue(SubSeq(text, 6, 7))
             day == DigitsValue(SubSeq(text, 9, 10))
         IN  IF month \in 1..12 /\ day \in 1..DaysIn(year, month)
             THEN Ok(Date(year, month, day))
             ELSE Err
    ELSE Err

\* models.rs:129-140
ChannelType ==
    [general |-> "General", controlledLoad |-> "ControlledLoad", feedIn |-> "FeedIn"]

\* models.rs:202-213
SiteStatus == [pending |-> "Pending", active |-> "Active", closed |-> "Closed"]

\* models.rs:269-276
SpikeStatus == [none |-> "None", potential |-> "Potential", spike |-> "Spike"]

\* models.rs:297-313
PriceDescriptor ==
    [negative |-> "Negative", extremelyLow |-> "ExtremelyLow",
     veryLow |-> "VeryLow", low |-> "Low", neutral |-> "Neutral",
     high |-> "High", spike |-> "Spike"]

\* models.rs:336-347
RenewableDescriptor ==
    [best |-> "Best", great |-> "Great", ok |-> "Ok", notGreat |-> "NotGreat",
     worst |-> "Worst"]

\* models.rs:465-475
TariffPeriod ==
    [offPeak |-> "OffPeak", shoulder |-> "Shoulder",
     solarSponge |-> "SolarSponge", peak |-> "Peak"]

\* models.rs:493-514
TariffSeason ==
    [default |-> "Default", summer |-> "Summer", autumn |-> "Autumn",
     winter |-> "Winter", spring |-> "Spring", nonSummer |-> "NonSummer",
     holiday |-> "Holiday", weekend |-> "Weekend",
     weekendHoliday |-> "WeekendHoliday", weekday |-> "Weekday"]

\* models.rs:738-743
UsageQuality == [estimated |-> "Estimated", billable |-> "Billable"]

decode_ChannelType(name) == decode_enum(ChannelType, name)

decode_SiteStatus(name) == decode_enum(SiteStatus, name)

decode_SpikeStatus(name) == decode_enum(SpikeStatus, name)

decode_PriceDescriptor(name) == decode_enum(PriceDescriptor, name)

decode_RenewableDescriptor(name) == decode_enum(RenewableDescriptor, name)

decode_TariffPeriod(name) == decode_enum(TariffPeriod, name)

decode_TariffSeason(name) == decode_enum(TariffSeason, name)

decode_UsageQuality(name) == decode_enum(UsageQuality, name)

\* A required field: an error when the key is missing, else what decoding
\* the value of the key gave (`decoded`).
decode_field(obj, key, decoded) ==
    IF Has(obj, key) THEN decoded ELSE Err

\* Every part of a struct decoded.
AllOk(parts) == \A k \in DOMAIN parts : parts[k].kind = "Ok"

\* The struct made of the decoded parts, or the error of a part.
decode_struct(parts) ==
    IF AllOk(parts) THEN Ok([k \in DOMAIN parts |-> parts[k].value]) ELSE Err

\* models.rs:167-175
decode_Channel(obj) ==
    decode_struct(
        [identifier   |-> decode_field(obj, "identifier", decode_plain(obj.identifier)),
         channel_type |-> decode_field(obj, "type", decode_ChannelType(obj.type)),
         tariff       |-> decode_field(obj, "tariff", decode_plain(obj.tariff))])

\* Vec<Channel>
decode_Channels(list) ==
    IF \A i \in 1..Len(list) : decode_Channel(list[i]).kind = "Ok"
    THEN Ok([i \in 1..Len(list) |-> decode_Channel(list[i]).value])
    ELSE Err

\* A Site decoder that requires the two dates.
decode_Site_dates_required(obj) ==
    decode_struct(
        [id              |-> decode_field(obj, "id", decode_plain(obj.id)),
         nmi             |-> decode_field(obj, "nmi", decode_plain(obj.nmi)),
         channels        |-> decode_field(obj, "channels", decode_Channels(obj.channels)),
         network         |-> decode_field(obj, "network", decode_plain(obj.network)),
         status          |-> decode_field(obj, "status", decode_SiteStatus(obj.status)),
         active_from     |-> decode_field(obj, "activeFrom", decode_Date(obj.activeFrom)),
         closed_on       |-> decode_field(obj, "closedOn", decode_Date(obj.closedOn)),
         interval_length |-> decode_field(obj, "intervalLength", decode_u32(obj.intervalLength))])

\* models.rs:230-249
decode_Site(obj) ==
    decode_struct(
        [id              |-> decode_field(obj, "id", decode_plain(obj.id)),
         nmi             |-> decode_field(obj, "nmi", decode_plain(obj.nmi)),
         channels        |-> decode_field(obj, "channels", decode_Channels(obj.channels)),
         network         |-> decode_field(obj, "network", decode_plain(obj.network)),
         status          |-> decode_field(obj, "status", decode_SiteStatus(obj.status)),
         active_from     |-> decode_Option(obj, "activeFrom", decode_Date(obj.activeFrom)),
         closed_on       |-> decode_Option(obj, "closedOn", decode_Date(obj.closedOn)),
         interval_length |-> decode_field(obj, "intervalLength", decode_u32(obj.intervalLength))])

\* models.rs:367-372
decode_Range(obj) ==
    decode_struct(
        [min |-> decode_field(obj, "min", decode_plain(obj.min)),
         max |-> decode_field(obj, "max", decode_plain(obj.max))])

\* models.rs:389-399
decode_AdvancedPrice(obj) ==
    decode_struct(
        [low       |-> decode_field(obj, "low", decode_plain(obj.low)),
         predicted |-> decode_field(obj, "predicted", decode_plain(obj.predicted)),
         high      |-> decode_field(obj, "high", decode_plain(obj.high))])

\* models.rs:416-433
decode_TariffInformation(obj) ==
    decode_struct(
        [period        |-> decode_Option(obj, "period", decode_TariffPeriod(obj.period)),
         season        |-> decode_Option(obj, "season", decode_TariffSeason(obj.season)),
         block         |-> decode_Option(obj, "block", decode_u32(obj.block)),
         demand_window |-> decode_Option(obj, "demandWindow", decode_plain(obj.demandWindow))])

\* models.rs:538-571
decode_BaseInterval(obj) ==
    decode_struct(
        [duration     |-> decode_field(obj, "duration", decode_u32(obj.duration)),
         spot_per_kwh |-> decode_field(obj, "spotPerKwh", decode_plain(obj.spotPerKwh)),
         per_kwh      |-> decode_field(obj, "perKwh", decode_plain(obj.perKwh)),
         date         |-> decode_field(obj, "date", decode_Date(obj.date)),
         nem_time     |-> decode_field(obj, "nemTime", decode_plain(obj.nemTime)),
         start_time   |-> decode_field(obj, "startTime", decode_plain(obj.startTime)),
         end_time     |-> decode_field(obj, "endTime", decode_plain(obj.endTime)),
         renewables   |-> decode_field(obj, "renewables", decode_plain(obj.renewables)),
         channel_type |-> decode_field(obj, "channelType", decode_ChannelType(obj.channelType)),
         tariff_information |->
             decode_Option(obj, "tariffInformation", decode_TariffInformation(obj.tariffInformation)),
         spike_status |-> decode_field(obj, "spikeStatus", decode_SpikeStatus(obj.spikeStatus)),
         descriptor   |-> decode_field(obj, "descriptor", decode_PriceDescriptor(obj.descriptor))])

\* models.rs:603-607
decode_ActualInterval(obj) ==
    decode_struct([base |-> decode_BaseInterval(obj)])

\* A ForecastInterval whose range is a required field.
decode_ForecastInterval_range_required(obj) ==
    decode_struct(
        [base           |-> decode_BaseInterval(obj),
         range          |-> decode_field(obj, "range", decode_Range(obj.range)),
         advanced_price |->
             decode_Option(obj, "advancedPrice", decode_AdvancedPrice(obj.advancedPrice))])

\* models.rs:620-628
decode_ForecastInterval(obj) ==
    decode_struct(
        [base           |-> decode_BaseInterval(obj),
         range          |-> decode_Option(obj, "range", decode_Range(obj.range)),
         advanced_price |->
             decode_Option(obj, "advancedPrice", decode_AdvancedPrice(obj.advancedPrice))])

\* models.rs:648-659
decode_CurrentInterval(obj) ==
    decode_struct(
        [base           |-> decode_BaseInterval(obj),
         range          |-> decode_Option(obj, "range", decode_Range(obj.range)),
         estimate       |-> decode_field(obj, "estimate", decode_plain(obj.estimate)),
         advanced_price |->
             decode_Option(obj, "advancedPrice", decode_AdvancedPrice(obj.advancedPrice))])

\* The enum value: the variant chosen by the tag and the struct it holds.
Variant(name, decoded) ==
    IF decoded.kind = "Ok"
    THEN Ok([variant |-> name, data |-> decoded.value])
    ELSE Err

\* An Interval decoder that takes every object without a known tag for an
\* ActualInterval.
decode_Interval_default_variant(obj) ==
    IF Has(obj, "type") /\ obj.type = "ForecastInterval"
    THEN Variant("ForecastInterval", decode_ForecastInterval(obj))
    ELSE IF Has(obj, "type") /\ obj.type = "CurrentInterval"
    THEN Variant("CurrentInterval", decode_CurrentInterval(obj))
    ELSE Variant("ActualInterval", decode_ActualInterval(obj))

\* models.rs:680-689, #[serde(tag = "type")]
decode_Interval(obj) ==
    IF ~Has(obj, "type")
    THEN Err
    ELSE CASE obj.type = "ActualInterval" ->
                  Variant("ActualInterval", decode_ActualInterval(obj))
           [] obj.type = "ForecastInterval" ->
                  Variant("ForecastInterval", decode_ForecastInterval(obj))
           [] obj.type = "CurrentInterval" ->
                  Variant("CurrentInterval", decode_CurrentInterval(obj))
           [] OTHER -> Err

\* models.rs:706-721
decode_Usage(obj) ==
    decode_struct(
        [base               |-> decode_BaseInterval(obj),
         channel_identifier |-> decode_field(obj, "channelIdentifier", decode_plain(obj.channelIdentifier)),
         kwh                |-> decode_field(obj, "kwh", decode_plain(obj.kwh)),
         quality            |-> decode_field(obj, "quality", decode_UsageQuality(obj.quality)),
         cost               |-> decode_field(obj, "cost", decode_plain(obj.cost))])

\* models.rs:759-779
decode_BaseRenewable(obj) ==
    decode_struct(
        [duration   |-> decode_field(obj, "duration", decode_u32(obj.duration)),
         date       |-> decode_field(obj, "date", decode_Date(obj.date)),
         nem_time   |-> decode_field(obj, "nemTime", decode_plain(obj.nemTime)),
         start_time |-> decode_field(obj, "startTime", decode_plain(obj.startTime)),
         end_time   |-> decode_field(obj, "endTime", decode_plain(obj.endTime)),
         renewables |-> decode_field(obj, "renewables", decode_plain(obj.renewables)),
         descriptor |-> decode_field(obj, "descriptor", decode_RenewableDescriptor(obj.descriptor))])

\* models.rs:796-800, 813-817, 830-834: each variant's struct is its base.
decode_RenewableVariant(obj) ==
    decode_struct([base |-> decode_BaseRenewable(obj)])

\* A Renewable decoder that ignores the tag and takes the first variant whose
\* fields are there.
decode_Renewable_untagged(obj) ==
    Variant("ActualRenewable", decode_RenewableVariant(obj))

\* models.rs:845-854, #[serde(tag = "type")]
decode_Renewable(obj) ==
    IF ~Has(obj, "type")
    THEN Err
    ELSE IF obj.type \in {"ActualRenewable", "ForecastRenewable", "CurrentRenewable"}
         THEN Variant(obj.type, decode_RenewableVariant(obj))
         ELSE Err

\* T::deserialize for the element type T of the endpoint's Vec<T>.
decode(T, obj) ==
    CASE T = "Site" -> decode_Site(obj)
      [] T = "Interval" -> decode_Interval(obj)
      [] T = "Renewable" -> decode_Renewable(obj)
      [] T = "Usage" -> decode_Usage(obj)

(***************************************************************************)
(* The objects a server sends in the array of a response body.             *)
(***************************************************************************)
\* The object with the key set to the value / without the key.
With(obj, key, v) ==
    [k \in DOMAIN obj \cup {key} |-> IF k = key THEN v ELSE obj[k]]

Without(obj, key) == [k \in DOMAIN obj \ {key} |-> obj[k]]

\* "2021-05-05"
DateText == <<"2", "0", "2", "1", "-", "0", "5", "-", "0", "5">>

\* An interval object of the prices endpoints (models.rs:1079-1093): the
\* half hour from instant 0 to instant 30 (instants counted in minutes).
IntervalObject(tag, duration) ==
    [type |-> tag, duration |-> duration, spotPerKwh |-> 6, perKwh |-> 24,
     date |-> DateText, nemTime |-> 30, startTime |-> 0, endTime |-> 30,
     renewables |-> 45, channelType |-> "general", spikeStatus |-> "none",
     descriptor |-> "low"]

\* models.rs:1094-1116: a current interval, with its estimate flag.
CurrentIntervalObject ==
    With(IntervalObject("CurrentInterval", 5), "estimate", TRUE)

\* models.rs:1117-1138: a forecast interval with range and advancedPrice.
ForecastIntervalObject ==
    With(With(IntervalObject("ForecastInterval", 30),
              "range", [min |-> 0, max |-> 0]),
         "advancedPrice", [low |-> 1, predicted |-> 3, high |-> 10])

\* Interval objects a server may send: well-formed ones of each variant,
\* and ones with one deviation each.
IntervalObjects ==
    {IntervalObject("ActualInterval", 5),
     ForecastIntervalObject,
     CurrentIntervalObject,
     IntervalObject("FutureInterval", 5),
     Without(IntervalObject("ActualInterval", 5), "type"),
     With(With(IntervalObject("ActualInterval", 5), "startTime", 30), "endTime", 0),
     With(IntervalObject("ActualInterval", 5), "renewables", 150),
     IntervalObject("ActualInterval", 0),
     Without(CurrentIntervalObject, "estimate")}

\* A renewable object of the renewables endpoint.
RenewableObject(tag, duration) ==
    [type |-> tag, duration |-> duration, date |-> DateText, nemTime |-> 30,
     startTime |-> 0, endTime |-> 30, renewables |-> 45, descriptor |-> "great"]

RenewableObjects ==
    {RenewableObject("ActualRenewable", 5),
     RenewableObject("ForecastRenewable", 30),
     RenewableObject("CurrentRenewable", 5),
     RenewableObject("ActualInterval", 5),
     Without(RenewableObject("ActualRenewable", 5), "type"),
     With(RenewableObject("ActualRenewable", 5), "endTime", 0),
     With(RenewableObject("ActualRenewable", 5), "renewables", 0 - 5),
     RenewableObject("CurrentRenewable", 0),
     With(RenewableObject("ActualRenewable", 5), "descriptor", "fine")}

\* A usage object of the usage endpoint.
UsageObject ==
    With(With(With(With(IntervalObject("Usage", 30),
        "channelIdentifier", "E1"), "kwh", 2), "quality", "billable"), "cost", 48)

UsageObjects ==
    {UsageObject,
     With(UsageObject, "quality", "estimated"),
     With(UsageObject, "startTime", 30),
     With(UsageObject, "renewables", 150),
     With(UsageObject, "duration", 0),
     With(UsageObject, "duration", 0 - 30),
     Without(UsageObject, "quality")}

\* models.rs:1020-1036: the closed site of the repository's test.
ClosedSiteObject ==
    [id |-> "01F5A5CRKMZ5BCX9P1S4V990AM", nmi |-> "3052282872",
     channels |-> <<[identifier |-> "E1", type |-> "general", tariff |-> "A100"]>>,
     network |-> "Jemena", status |-> "closed",
     activeFrom |-> <<"2", "0", "2", "2", "-", "0", "1", "-", "0", "1">>,
     closedOn |-> <<"2", "0", "2", "2", "-", "0", "5", "-", "0", "1">>,
     intervalLength |-> 30]

SiteObjects ==
    {ClosedSiteObject,
     Without(ClosedSiteObject, "closedOn"),
     Without(ClosedSiteObject, "activeFrom"),
     With(Without(ClosedSiteObject, "closedOn"), "status", "active"),
     With(Without(Without(ClosedSiteObject, "closedOn"), "activeFrom"),
          "status", "pending"),
     With(ClosedSiteObject, "status", "suspended"),
     With(ClosedSiteObject, "closedOn",
          <<"2", "0", "2", "2", "-", "0", "2", "-", "3", "0">>),
     Without(ClosedSiteObject, "id")}

\* The objects a server may send to an endpoint returning Vec<T>.
Objects(T) ==
    CASE T = "Site" -> SiteObjects
      [] T = "Interval" -> IntervalObjects
      [] T = "Renewable" -> RenewableObjects
      [] T = "Usage" -> UsageObjects

\* The non-empty arrays of at most MaxItems such objects.
Arrays(T) == UNION {[1..n -> Objects(T)] : n \in 1..MaxItems}

\* The scripts of a server that answers the first request as one of Finals.
PlainScripts == {[lead |-> 0, reset |-> None, final |-> f] : f \in Finals}

\* The scripts of a server that answers the first request: with a 200
\* carrying such an array, or as one of Finals.
ServerScripts(T) ==
    {[lead |-> 0, reset |-> None, final |-> f] :
        f \in Finals \cup {Response(200, None, JsonArray(items)) : items \in Arrays(T)}}

\* The scripts of a server answering each kind of endpoint.
SiteScripts == ServerScripts("Site")

IntervalScripts == ServerScripts("Interval")

RenewableScripts == ServerScripts("Renewable")

UsageScripts == ServerScripts("Usage")

\* Interval objects that differ in their optional members: forecast and
\* current intervals with and without range and advancedPrice, a current
\* interval without its estimate, and actual intervals, one of them with
\* members that belong to the other variants.
OptionalObjects ==
    {ForecastIntervalObject,
     Without(ForecastIntervalObject, "range"),
     Without(ForecastIntervalObject, "advancedPrice"),
     CurrentIntervalObject,
     With(CurrentIntervalObject, "range", [min |-> 1, max |-> 10]),
     Without(CurrentIntervalObject, "estimate"),
     IntervalObject("ActualInterval", 5),
     With(With(IntervalObject("ActualInterval", 5), "range", [min |-> 1, max |-> 10]),
          "estimate", TRUE)}
OptionalScripts ==
    {[lead |-> 0, reset |-> None, final |-> Response(200, None, JsonArray(items))] :
        items \in UNION {[1..n -> OptionalObjects] : n \in 1..MaxItems}}

\* A server that answers sites() with a short list of a few sites: a closed
\* one, an active one, and one that lacks its id.
RepeatableObjects ==
    {ClosedSiteObject,
     With(Without(ClosedSiteObject, "closedOn"), "status", "active"),
     Without(ClosedSiteObject, "id")}
RepeatableScripts ==
    {[lead |-> 0, reset |-> None, final |-> Response(200, None, JsonArray(items))] :
        items \in UNION {[1..n -> RepeatableObjects] : n \in 1..MaxItems}}

(***************************************************************************)
(* ureq, as Amber::get uses it.                                            *)
(***************************************************************************)
\* A 4xx or 5xx status (ureq turns these into Error::StatusCode when the
\* agent's http_status_as_error is set, which is ureq's default).
IsErrorStatus(status) == status \in 400..599

Is2xx(status) == status \in 200..299

\* A decoder that accepts every body.
read_json_lenient(T, body) ==
    Ok(<<>>)

\* A decoder that returns the decoded elements last to first.
read_json_reversed(T, body) ==
    IF /\ body.json = "array"
       /\ \A i \in 1..Len(body.items) : decode(T, body.items[i]).kind = "Ok"
    THEN Ok([i \in 1..Len(body.items) |->
                decode(T, body.items[Len(body.items) + 1 - i]).value])
    ELSE Http("Json", 0)

\* response.body_mut().read_json::<Vec<T>>(), client.rs:62: the decoded
\* list (every element of the array decoded as T, in the array's order), or
\* ureq::Error::Json turned into AmberError::Http by `?`.
read_json(T, body) ==
    IF /\ body.json = "array"
       /\ \A i \in 1..Len(body.items) : decode(T, body.items[i]).kind = "Ok"
    THEN Ok([i \in 1..Len(body.items) |-> decode(T, body.items[i]).value])
    ELSE Http("Json", 0)

\* request.call()?, client.rs:61: Ok(response), or the ureq::Error that `?`
\* turns into AmberError::Http (error.rs:22, #[from]).
call(agent, answer) ==
    IF answer.failed
    THEN Http(answer.kind, 0)
    ELSE IF agent.http_status_as_error /\ IsErrorStatus(answer.status)
         THEN Http("StatusCode", answer.status)
         ELSE Ok(answer)

(***************************************************************************)
(* Amber::get, client.rs:45-63.                                            *)
(***************************************************************************)
\* A request that carries an Authorization header whatever the client holds.
build_request_always_auth(cl, path, query) ==
    [url   |-> cl.base_url \o path,
     auth  |-> "Bearer " \o cl.api_key,
     query |-> query]

\* A request whose credential is read from the environment when it is built.
build_request_from_env(cl, path, query) ==
    [url   |-> cl.base_url \o path,
     auth  |-> IF env # NotPresent /\ env # "" THEN "Bearer " \o env ELSE None,
     query |-> query]

\* client.rs:51-59: the request built from the client, the path and the query.
build_request(cl, path, query) ==
    [url   |-> cl.base_url \o path,
     auth  |-> IF cl.api_key # None THEN "Bearer " \o cl.api_key ELSE None,
     query |-> query]

\* client.rs:61-62: the value get returns for the transport's answer.
get_result(cl, T, answer) ==
    LET response == call(cl.agent, answer)
    IN  IF response.kind = "Ok"
        THEN read_json(T, response.value.body)
        ELSE response

\* The answer the call of caller c is waiting for.
Pending(c) == Answer(transport[c], Len(sent[c]))

(***************************************************************************)
(* The state machine.                                                      *)
(***************************************************************************)
\* client.rs:16-23, 31-39: the client as built by Default or by the builder.
Clients ==
    [api_key  : ApiKeys,
     base_url : {API_BASE_URL},
     agent    : [http_status_as_error : BOOLEAN]]

\* error.rs:7-11: the documented retry options (enabled by default).  Amber
\* has no field for them and get never reads them.
Policies == [retry_on_rate_limit : BOOLEAN, max_retries : 0..MaxRetries]

\* client.rs:31-39: Amber::default(), run in an environment where
\* AMBER_API_KEY is e: the variable is read here, and an absent or empty
\* value gives no key.
default(e) ==
    [agent    |-> [http_status_as_error |-> TRUE],
     api_key  |-> IF e # NotPresent /\ e # "" THEN e ELSE None,
     base_url |-> API_BASE_URL]

\* The clients below are built by the builder or by Default; no call reads
\* the environment, which is left without the variable here and is varied
\* under SpecEnv.
Init ==
    /\ env = NotPresent
    /\ shown = NothingShown
    /\ client \in Clients
    /\ policy \in Policies
    /\ pc = [c \in Calls |-> "idle"]
    /\ transport = [c \in Calls |-> NoScript]
    /\ sent = [c \in Calls |-> <<>>]
    /\ slept = [c \in Calls |-> <<>>]
    /\ result = [c \in Calls |-> NoResult]
    /\ args = [c \in Calls |-> NoArgs]
    /\ answered = [c \in Calls |-> 0]

\* A get that sends nothing when another caller has the same request in
\* flight, and waits for that caller's response instead.
get_call_coalesced(c, a, path, query, script) ==
    /\ args' = [args EXCEPT ![c] = a]
    /\ IF \E d \in Calls \ {c} :
              pc[d] = "in_flight" /\ sent[d] = <<build_request(client, path, query)>>
       THEN /\ transport' = [transport EXCEPT ![c] =
                                transport[CHOOSE d \in Calls \ {c} :
                                              pc[d] = "in_flight"]]
            /\ sent' = [sent EXCEPT ![c] = <<>>]
       ELSE /\ transport' = [transport EXCEPT ![c] = script]
            /\ sent' = [sent EXCEPT ![c] = <<build_request(client, path, query)>>]
    /\ pc' = [pc EXCEPT ![c] = "in_flight"]
    /\ UNCHANGED <<env, shown, client, policy, slept, result, answered>>

\* A get that sends the request twice without waiting for the first answer.
get_call_hedged(c, a, path, query, script) ==
    /\ args' = [args EXCEPT ![c] = a]
    /\ transport' = [transport EXCEPT ![c] = script]
    /\ sent' = [sent EXCEPT ![c] = <<build_request(client, path, query),
                                     build_request(client, path, query)>>]
    /\ pc' = [pc EXCEPT ![c] = "in_flight"]
    /\ UNCHANGED <<env, shown, client, policy, slept, result, answered>>

\* client.rs:51-61: get builds the request for (path, query) and sends it
\* with request.call(); `a` is the endpoint method's call, `script` what the
\* server will answer.  The caller is idle when it calls the method.
get_call(c, a, path, query, script) ==
    /\ args' = [args EXCEPT ![c] = a]
    /\ transport' = [transport EXCEPT ![c] = script]
    /\ sent' = [sent EXCEPT ![c] = <<build_request(client, path, query)>>]
    /\ pc' = [pc EXCEPT ![c] = "in_flight"]
    /\ UNCHANGED <<env, shown, client, policy, slept, result, answered>>

\* client.rs:184-186: sites() hands ("sites", no query) to get.
sites_from(c, script) ==
    /\ pc[c] = "idle"
    /\ get_call(c, sites_args, "sites", <<>>, script)

sites(c) ==
    \E script \in Scripts : sites_from(c, script)

\* sites() against a server that answers the first request.
sites_served(c) ==
    \E script \in SiteScripts : sites_from(c, script)

\* client.rs:266-283
prices_from(c, site_id, start_date, end_date, resolution, script) ==
    /\ pc[c] = "idle"
    /\ get_call(c, prices_args(site_id, start_date, end_date, resolution),
                "sites/" \o site_id \o "/prices",
                filter_map(<< <<"startDate", map(start_date, Date_to_string(start_date[1]))>>,
                              <<"endDate", map(end_date, Date_to_string(end_date[1]))>>,
                              <<"resolution", map(resolution, Resolution_to_string(resolution[1]))>> >>),
                script)

\* client.rs:365-382
current_prices_from(c, site_id, next, previous, resolution, script) ==
    /\ pc[c] = "idle"
    /\ get_call(c, current_prices_args(site_id, next, previous, resolution),
                "sites/" \o site_id \o "/prices/current",
                filter_map(<< <<"next", map(next, u32_to_string(next[1]))>>,
                              <<"previous", map(previous, u32_to_string(previous[1]))>>,
                              <<"resolution", map(resolution, Resolution_to_string(resolution[1]))>> >>),
                script)

\* client.rs:125-142
current_renewables_from(c, state, next, previous, resolution, script) ==
    /\ pc[c] = "idle"
    /\ get_call(c, current_renewables_args(state, next, previous, resolution),
                "state/" \o State_to_string(state) \o "/renewables/current",
                filter_map(<< <<"next", map(next, u32_to_string(next[1]))>>,
                              <<"previous", map(previous, u32_to_string(previous[1]))>>,
                              <<"resolution", map(resolution, Resolution_to_string(resolution[1]))>> >>),
                script)

\* client.rs:452-466
usage_from(c, site_id, start_date, end_date, script) ==
    /\ pc[c] = "idle"
    /\ get_call(c, usage_args(site_id, start_date, end_date),
                "sites/" \o site_id \o "/usage",
                << <<"startDate", Date_to_string(start_date)>>,
                   <<"endDate", Date_to_string(end_date)>> >>,
                script)

\* The query is built before the answer exists and decoding never reads the
\* arguments, so a call is made either with any arguments against a body of
\* Finals, or with the arguments decoding could depend on (the resolution)
\* against any body.
prices(c) ==
    \/ \E site_id \in SiteIds, start_date \in OptionOf(Dates),
          end_date \in OptionOf(Dates), resolution \in OptionOf(Resolutions),
          script \in PlainScripts :
           prices_from(c, site_id, start_date, end_date, resolution, script)
    \/ \E resolution \in OptionOf(Resolutions),
          script \in IntervalScripts :
           prices_from(c, "S1", Absent, Absent, resolution, script)

current_prices(c) ==
    \/ \E site_id \in SiteIds, next \in OptionOf(Counts),
          previous \in OptionOf(Counts), resolution \in OptionOf(Resolutions),
          script \in PlainScripts :
           current_prices_from(c, site_id, next, previous, resolution, script)
    \/ \E resolution \in OptionOf(Resolutions),
          script \in IntervalScripts :
           current_prices_from(c, "S1", Absent, Absent, resolution, script)

current_renewables(c) ==
    \/ \E state \in States, next \in OptionOf(Counts),
          previous \in OptionOf(Counts), resolution \in OptionOf(Resolutions),
          script \in PlainScripts :
           current_renewables_from(c, state, next, previous, resolution, script)
    \/ \E resolution \in OptionOf(Resolutions),
          script \in RenewableScripts :
           current_renewables_from(c, "Vic", Absent, Absent, resolution, script)

usage(c) ==
    \/ \E site_id \in SiteIds, start_date \in Dates, end_date \in Dates,
          script \in PlainScripts :
           usage_from(c, site_id, start_date, end_date, script)
    \/ \E script \in UsageScripts :
           usage_from(c, "S1", Date(2021, 5, 5), Date(2021, 5, 5), script)

\* A get that sends the request again when the transport fails.
get_return_retry_failure(c) ==
    /\ pc[c] = "in_flight"
    /\ IF Pending(c).failed /\ Len(sent[c]) < 2
       THEN /\ sent' = [sent EXCEPT ![c] = Append(@, @[1])]
            /\ UNCHANGED <<pc, result>>
       ELSE /\ result' = [result EXCEPT ![c] =
                             get_result(client, args[c].T, Pending(c))]
            /\ pc' = [pc EXCEPT ![c] = "done"]
            /\ UNCHANGED sent
    /\ answered' = [answered EXCEPT ![c] = @ + 1]
    /\ UNCHANGED <<env, shown, client, policy, transport, slept, args>>

\* A get that sends the request again on every 429, whatever the policy.
get_return_retry_429(c) ==
    /\ pc[c] = "in_flight"
    /\ IF ~Pending(c).failed /\ Pending(c).status = 429
          /\ Len(sent[c]) < MaxRetries + 2
       THEN /\ sent' = [sent EXCEPT ![c] = Append(@, @[1])]
            /\ UNCHANGED <<pc, result>>
       ELSE /\ result' = [result EXCEPT ![c] =
                             get_result(client, args[c].T, Pending(c))]
            /\ pc' = [pc EXCEPT ![c] = "done"]
            /\ UNCHANGED sent
    /\ answered' = [answered EXCEPT ![c] = @ + 1]
    /\ UNCHANGED <<env, shown, client, policy, transport, slept, args>>

\* A get that forgets the credential when the call fails.
get_return_drop_key(c) ==
    /\ pc[c] = "in_flight"
    /\ answered' = [answered EXCEPT ![c] = @ + 1]
    /\ result' = [result EXCEPT ![c] = get_result(client, args[c].T, Pending(c))]
    /\ client' = IF get_result(client, args[c].T, Pending(c)).kind = "Ok"
                 THEN client
                 ELSE [client EXCEPT !.api_key = None]
    /\ pc' = [pc EXCEPT ![c] = "done"]
    /\ UNCHANGED <<env, shown, policy, transport, sent, slept, args>>

\* A get that decodes into a buffer shared by the callers: a list decoded
\* while another call is in flight loses its last record.
get_return_shared_buffer(c) ==
    /\ pc[c] = "in_flight"
    /\ answered' = [answered EXCEPT ![c] = @ + 1]
    /\ result' = [result EXCEPT ![c] =
          LET own == get_result(client, args[c].T, Pending(c))
          IN  IF /\ own.kind = "Ok"
                 /\ Len(own.value) > 0
                 /\ \E d \in Calls \ {c} : pc[d] = "in_flight"
              THEN Ok(SubSeq(own.value, 1, Len(own.value) - 1))
              ELSE own]
    /\ pc' = [pc EXCEPT ![c] = "done"]
    /\ UNCHANGED <<env, shown, client, policy, transport, sent, slept, args>>

\* client.rs:61-62: request.call() comes back and get returns.
get_return(c) ==
    /\ pc[c] = "in_flight"
    /\ answered' = [answered EXCEPT ![c] = @ + 1]
    /\ result' = [result EXCEPT ![c] = get_result(client, args[c].T, Pending(c))]
    /\ pc' = [pc EXCEPT ![c] = "done"]
    /\ UNCHANGED <<env, shown, client, policy, transport, sent, slept, args>>

\* The caller takes the result and drops the call's values; it may call again.
finish(c) ==
    /\ pc[c] = "done"
    /\ pc' = [pc EXCEPT ![c] = "idle"]
    /\ transport' = [transport EXCEPT ![c] = NoScript]
    /\ sent' = [sent EXCEPT ![c] = <<>>]
    /\ slept' = [slept EXCEPT ![c] = <<>>]
    /\ result' = [result EXCEPT ![c] = NoResult]
    /\ args' = [args EXCEPT ![c] = NoArgs]
    /\ answered' = [answered EXCEPT ![c] = 0]
    /\ UNCHANGED <<env, shown, client, policy>>

Next ==
    \E c \in Calls : sites(c) \/ get_return(c) \/ finish(c)

Spec == Init /\ [][Next]_vars

\* The process changes AMBER_API_KEY after the client was built.
set_var(value) ==
    /\ env # value
    /\ env' = value
    /\ UNCHANGED <<shown, client, policy, pc, transport, sent, slept, result,
                   args, answered>>

\* A default client and one caller, in a process that changes its
\* environment between and during the calls.
NextEnv ==
    \/ \E value \in EnvValues : set_var(value)
    \/ sites(1)
    \/ get_return(1)
    \/ finish(1)

\* client.rs:31-39: the client is built by Default from the environment of
\* that moment.
InitEnv ==
    /\ env \in EnvValues
    /\ shown = NothingShown
    /\ client = default(env)
    /\ policy = [retry_on_rate_limit |-> TRUE, max_retries |-> MaxRetries]
    /\ pc = [c \in Calls |-> "idle"]
    /\ transport = [c \in Calls |-> NoScript]
    /\ sent = [c \in Calls |-> <<>>]
    /\ slept = [c \in Calls |-> <<>>]
    /\ result = [c \in Calls |-> NoResult]
    /\ args = [c \in Calls |-> NoArgs]
    /\ answered = [c \in Calls |-> 0]

SpecEnv == InitEnv /\ [][NextEnv]_vars

\* request.call() blocks until the transport answers or fails, and get then
\* returns without another suspension point: a call in flight is answered.
FairSpec == Spec /\ \A c \in Calls : WF_vars(get_return(c))

\* One caller using every endpoint method of the client (client.rs:125-466),
\* against a server that answers the first request.
NextEndpoints ==
    \/ sites_served(1)
    \/ prices(1)
    \/ current_prices(1)
    \/ current_renewables(1)
    \/ usage(1)
    \/ get_return(1)
    \/ finish(1)

\* The retry options left at their documented default (error.rs:7-11).
InitEndpoints ==
    /\ Init
    /\ policy = [retry_on_rate_limit |-> TRUE, max_retries |-> MaxRetries]

SpecEndpoints == InitEndpoints /\ [][NextEndpoints]_vars

\* models.rs:401-410: the program displays the AdvancedPrice it holds.
to_string ==
    /\ shown.text = NoText
    /\ IsSome(shown.price)
    /\ shown' = [shown EXCEPT !.text = AdvancedPrice_fmt(shown.price[1])]
    /\ UNCHANGED <<env, client, policy, pc, transport, sent, slept, result,
                   args, answered>>

\* The program drops the text.
drop_text ==
    /\ shown.text # NoText
    /\ shown' = [shown EXCEPT !.text = NoText]
    /\ UNCHANGED <<env, client, policy, pc, transport, sent, slept, result,
                   args, answered>>

NextDisplay == to_string \/ drop_text

\* The program holds some AdvancedPrice; the client is idle.
InitDisplay ==
    /\ env = NotPresent
    /\ shown \in [price : {Some(p) : p \in AdvancedPrices}, text : {NoText}]
    /\ client = default(env)
    /\ policy = [retry_on_rate_limit |-> TRUE, max_retries |-> MaxRetries]
    /\ pc = [c \in Calls |-> "idle"]
    /\ transport = [c \in Calls |-> NoScript]
    /\ sent = [c \in Calls |-> <<>>]
    /\ slept = [c \in Calls |-> <<>>]
    /\ result = [c \in Calls |-> NoResult]
    /\ args = [c \in Calls |-> NoArgs]
    /\ answered = [c \in Calls |-> 0]

SpecDisplay == InitDisplay /\ [][NextDisplay]_vars

\* current_prices() against a server whose intervals differ in their
\* optional members.
current_prices_optional(c) ==
    \E script \in OptionalScripts :
        current_prices_from(c, "S1", Absent, Absent, Absent, script)

NextOptional ==
    \/ current_prices_optional(1)
    \/ get_return(1)
    \/ finish(1)

SpecOptional == InitEndpoints /\ [][NextOptional]_vars

\* sites() against a server that may answer two calls with the same list.
sites_repeated(c) ==
    \E script \in RepeatableScripts : sites_from(c, script)

\* Two callers that repeat sites() on the same client.
NextRepeat ==
    \E c \in Calls : sites_repeated(c) \/ get_return(c) \/ finish(c)

SpecRepeat == InitEndpoints /\ [][NextRepeat]_vars

TypeOK ==
    /\ env \in EnvValues
    /\ shown.price \in {Absent} \cup {Some(p) : p \in AdvancedPrices}
    /\ client \in Clients
    /\ policy \in Policies
    /\ pc \in [Calls -> {"idle", "in_flight", "done"}]
    /\ \A c \in Calls :
           transport[c] \in
               Scripts \cup {NoScript} \cup SiteScripts \cup RepeatableScripts
                   \cup OptionalScripts \cup IntervalScripts
                   \cup RenewableScripts \cup UsageScripts
    /\ \A c \in Calls : args[c].T \in ResultTypes
    /\ answered \in [Calls -> 0..(MaxRetries + 2)]

(***************************************************************************)
(* Vocabulary of the claims.                                               *)
(***************************************************************************)
Done(c) == pc[c] = "done"

\* The number of requests the call of caller c has issued.
Requests(c) == Len(sent[c])

\* The answer to the i-th request of the call of caller c.
Received(c, i) == Answer(transport[c], i)

\* The answer to the latest request of the call of caller c.
Last(c) == Received(c, Requests(c))

Is429(answer) == ~answer.failed /\ answer.status = 429

\* The retry_after of a 429 as the specification defines it: the number in
\* the rate-limit-reset header, 60 when the header is absent or unparseable.
RetryAfterOf(reset) ==
    CASE reset = "5" -> 5
      [] reset = "30" -> 30
      [] OTHER -> 60

NumericHeaders == {"5", "30"}

\* The script answers 429 to each of the requests 1..n.
Leads429(script, n) == \A i \in 1..n : Is429(Answer(script, i))

(***************************************************************************)
(* C1.  A 429 received while retries are enabled and fewer than            *)
(* max_retries retries have been made is followed by a wait of retry_after *)
(* seconds and by a second request equal to the first (same url, same      *)
(* query, same Authorization header).                                      *)
(* Stated over the calls that have returned: every such 429 they received  *)
(* has a wait and a following identical request.                           *)
(***************************************************************************)
C1_RetryOn429 ==
    \A c \in Calls :
        Done(c) =>
            \A i \in 1..Requests(c) :
                ( /\ Is429(Received(c, i))
                  /\ policy.retry_on_rate_limit
                  /\ i - 1 < policy.max_retries )
                => /\ i < Requests(c)
                   /\ sent[c][i + 1] = sent[c][i]
                   /\ i <= Len(slept[c])
                   /\ slept[c][i] = RetryAfterOf(Received(c, i).reset)

(***************************************************************************)
(* C2.  With retries enabled, a transport that answers the first k         *)
(* requests (0 <= k <= max_retries) with 429 carrying the numeric reset    *)
(* header s and the next with a 2xx whose body decodes makes the call      *)
(* return Ok with the decoded body after exactly k waits of s seconds.     *)
(***************************************************************************)
C2_SucceedsAfterKWaits ==
    \A c \in Calls :
        ( /\ Done(c)
          /\ policy.retry_on_rate_limit
          /\ transport[c].lead <= policy.max_retries
          /\ transport[c].lead > 0 => transport[c].reset \in NumericHeaders
          /\ transport[c].final = Response(200, None, EmptyArray) )
        => /\ result[c] = Ok(<<>>)
           /\ Len(slept[c]) = transport[c].lead
           /\ \A i \in 1..Len(slept[c]) :
                  slept[c][i] = RetryAfterOf(transport[c].reset)

(***************************************************************************)
(* C3.  With retries disabled, a 429 makes the call fail at once with      *)
(* RateLimitExceeded(retry_after): no wait, no second request.             *)
(***************************************************************************)
C3_DisabledFailsAtOnce ==
    \A c \in Calls :
        ( /\ Done(c)
          /\ ~policy.retry_on_rate_limit
          /\ Is429(Received(c, 1)) )
        => /\ result[c] = RateLimitExceeded(RetryAfterOf(Received(c, 1).reset))
           /\ slept[c] = <<>>
           /\ Requests(c) = 1

(***************************************************************************)
(* C4.  With retries enabled, a transport that answers 429 to each of the  *)
(* first max_retries + 1 requests makes the call fail with                 *)
(* RateLimitExhausted{attempts: max_retries, retry_after: that of the last *)
(* 429} (always 429 without a header, max_retries = 2: attempts 2,         *)
(* retry_after 60).                                                        *)
(***************************************************************************)
C4_ExhaustedAfterMaxRetries ==
    \A c \in Calls :
        ( /\ Done(c)
          /\ policy.retry_on_rate_limit
          /\ Leads429(transport[c], policy.max_retries + 1) )
        => result[c] = RateLimitExhausted(policy.max_retries,
                                          RetryAfterOf(transport[c].reset))

(***************************************************************************)
(* C5.  The retry_after of a 429 is the number in its rate-limit-reset     *)
(* header, 60 when the header is absent or unparseable: every wait made    *)
(* for a 429 lasts that long, and a call ended by a 429 reports it in its  *)
(* rate-limit error.                                                       *)
(***************************************************************************)
C5_RetryAfterFromHeader ==
    \A c \in Calls :
        Done(c) =>
            /\ \A i \in 1..Len(slept[c]) :
                   slept[c][i] = RetryAfterOf(Received(c, i).reset)
            /\ Is429(Last(c)) =>
                   /\ result[c].kind \in {"RateLimitExceeded", "RateLimitExhausted"}
                   /\ result[c].retry_after = RetryAfterOf(Last(c).reset)

(***************************************************************************)
(* C6.  A response whose status is neither 2xx nor 429 makes the call fail *)
(* with UnexpectedStatus{status, body} carrying that status; the request   *)
(* is not sent again.                                                      *)
(***************************************************************************)
C6_UnexpectedStatus ==
    \A c \in Calls :
        ( /\ Done(c)
          /\ ~Last(c).failed
          /\ ~Is2xx(Last(c).status)
          /\ Last(c).status # 429 )
        => /\ result[c] = UnexpectedStatus(Last(c).status, Last(c).body)
           /\ Requests(c) = 1

(***************************************************************************)
(* C7.  A transport failure (no HTTP response) makes the call return       *)
(* AmberError::Http wrapping that failure after exactly one request: no    *)
(* request is ever issued after a failed one.                              *)
(***************************************************************************)
C7_TransportFailureNotRetried ==
    \A c \in Calls :
        /\ \A i \in 1..Requests(c) : Received(c, i).failed => i = Requests(c)
        /\ (Done(c) /\ Last(c).failed) =>
               /\ result[c] = Http(Last(c).kind, 0)
               /\ Requests(c) = 1
               /\ slept[c] = <<>>

C7_Witness ==
    \E c \in Calls :
        /\ Done(c)
        /\ Received(c, 1) = Failure("Io")
        /\ result[c].kind = "Http"

(***************************************************************************)
(* C8.  As claimed: a 2xx response whose body is not JSON or is JSON of    *)
(* another type makes the call fail with a Deserialization error kind.     *)
(***************************************************************************)
C8_DeserializationKind ==
    \A c \in Calls :
        ( /\ Done(c)
          /\ ~Last(c).failed
          /\ Is2xx(Last(c).status)
          /\ Last(c).body # EmptyArray )
        => result[c].kind = "Deserialization"

(***************************************************************************)
(* C8, amended.  A 2xx response whose body is not JSON or is JSON of       *)
(* another type makes the call fail with AmberError::Http, the variant a   *)
(* transport failure is reported with; the wrapped ureq error (Json) is    *)
(* what tells it from a transport failure.                                 *)
(***************************************************************************)
C8_JsonErrorIsHttp ==
    \A c \in Calls :
        ( /\ Done(c)
          /\ ~Last(c).failed
          /\ Is2xx(Last(c).status)
          /\ Last(c).body # EmptyArray )
        => /\ result[c].kind = "Http"
           /\ result[c].inner = "Json"
           /\ result[c].inner \notin TransportFailures

C8_Witness ==
    \E c \in Calls :
        /\ Done(c)
        /\ Last(c) = Response(200, None, NotAnArray)
        /\ result[c] = Http("Json", 0)

(***************************************************************************)
(* C9.  A call returns Ok only when the last response was a 2xx whose body *)
(* decoded, and an error otherwise; the only answers a call has received   *)
(* and not surfaced are 429s received with retries enabled and the retry   *)
(* budget not spent.                                                       *)
(***************************************************************************)
C9_NoFailureSwallowed ==
    \A c \in Calls :
        Done(c) =>
            /\ result[c].kind # "NoResult"
            /\ result[c].kind = "Ok" <=>
                   ( /\ ~Last(c).failed
                     /\ Is2xx(Last(c).status)
                     /\ Last(c).body = EmptyArray )
            /\ \A i \in 1..(Requests(c) - 1) :
                   /\ Is429(Received(c, i))
                   /\ policy.retry_on_rate_limit
                   /\ i - 1 < policy.max_retries

(***************************************************************************)
(* C10.  Every call terminates, and it issues at most max_retries + 1      *)
(* requests, also against a transport that answers 429 forever.            *)
(***************************************************************************)
C10_BoundedAndTerminates ==
    /\ [](\A c \in Calls : Requests(c) <= policy.max_retries + 1)
    /\ \A c \in Calls : (pc[c] = "in_flight") ~> (pc[c] = "done")

C10_Witness ==
    \E c \in Calls :
        /\ Done(c)
        /\ transport[c].final = Always429
        /\ Requests(c) = 1

(***************************************************************************)
(* C11.  Within one logical call at most one request is outstanding at any *)
(* time: the requests issued exceed the answers (responses or transport    *)
(* failures) received by at most one, so a further request is issued only  *)
(* once the answer to the one before it is known.                          *)
(***************************************************************************)
C11_OneOutstanding ==
    \A c \in Calls :
        /\ Requests(c) - answered[c] \in {0, 1}
        /\ pc[c] = "in_flight" <=> Requests(c) - answered[c] = 1

C11_Witness ==
    \A c \in Calls :
        /\ pc[c] = "in_flight"
        /\ Requests(c) = 1
        /\ answered[c] = 0

(***************************************************************************)
(* Vocabulary of the claims about the endpoint methods.                    *)
(***************************************************************************)
Methods == {"sites", "prices", "current_prices", "current_renewables", "usage"}

\* Caller c has called an endpoint method and not yet dropped the call.
Called(c) == args[c].method \in Methods

\* The request of the call of caller c.
Request(c) == sent[c][1]

\* The query holds the pair (key, value).
HasPair(query, key, value) ==
    \E i \in 1..Len(query) : query[i] = <<key, value>>

\* The number of pairs of the query with the key.
Count(query, key) == Cardinality({i \in 1..Len(query) : query[i][1] = key})

(***************************************************************************)
(* C12.  Every request sent carries the header Authorization: Bearer <key> *)
(* exactly when the client holds a credential, for each of the five        *)
(* endpoint methods; a client without a credential still sends the         *)
(* request, without the header, and returns what the transport's answer    *)
(* gives rather than failing locally.                                      *)
(***************************************************************************)
C12_AuthorizationHeader ==
    \A c \in Calls :
        /\ \A i \in 1..Requests(c) :
               /\ client.api_key # None =>
                      sent[c][i].auth = "Bearer " \o client.api_key
               /\ client.api_key = None => sent[c][i].auth = None
        /\ Called(c) => Requests(c) = 1
        /\ Done(c) => answered[c] = 1

C12_Witness ==
    /\ client.api_key = None
    /\ args[1].method = "usage"
    /\ Done(1)
    /\ Request(1).auth = None
    /\ result[1].kind = "Ok"

(***************************************************************************)
(* C13.  For prices, current_prices and current_renewables the query sent  *)
(* contains a key exactly when the corresponding optional parameter was    *)
(* supplied, once, and never a pair with an empty value: with every        *)
(* optional parameter absent the query has no pair, and with only          *)
(* previous = 2 and next = 3 it has exactly the pairs previous=2 and       *)
(* next=3 and no resolution.                                               *)
(***************************************************************************)
\* The methods with optional parameters, and the query key of each.
OptionalKeys(method) ==
    CASE method = "prices" -> {"startDate", "endDate", "resolution"}
      [] method \in {"current_prices", "current_renewables"} ->
            {"next", "previous", "resolution"}
      [] OTHER -> {}

\* The argument of the call `a` that the key stands for.
Parameter(a, key) ==
    CASE key = "startDate" -> a.start_date
      [] key = "endDate" -> a.end_date
      [] key = "next" -> a.next
      [] key = "previous" -> a.previous
      [] key = "resolution" -> a.resolution

C13_OptionalParametersOmitted ==
    \A c \in Calls :
        (Called(c) /\ OptionalKeys(args[c].method) # {}) =>
            LET query == Request(c).query
                keys == OptionalKeys(args[c].method)
            IN  /\ \A key \in keys :
                       Count(query, key) =
                           IF IsSome(Parameter(args[c], key)) THEN 1 ELSE 0
                /\ \A i \in 1..Len(query) :
                       /\ query[i][1] \in keys
                       /\ Len(query[i][2]) > 0
                /\ (\A key \in keys : ~IsSome(Parameter(args[c], key)))
                       => query = <<>>
                /\ ( /\ "next" \in keys
                     /\ args[c].previous = Some(2)
                     /\ args[c].next = Some(3)
                     /\ args[c].resolution = Absent )
                       => /\ Len(query) = 2
                          /\ HasPair(query, "previous", <<"2">>)
                          /\ HasPair(query, "next", <<"3">>)

C13_Witness ==
    /\ args[1] = current_prices_args("S1", Some(3), Some(2), Absent)
    /\ Len(Request(1).query) = 2
    /\ Count(Request(1).query, "resolution") = 0

(***************************************************************************)
(* C14.  current_prices for the site id S with previous = p, next = n and  *)
(* the resolution r requests the path sites/S/prices/current with exactly  *)
(* the query pairs previous=<p>, next=<n> and resolution=<minutes of r>    *)
(* ("5" or "30"), each key appearing at most once.                         *)
(***************************************************************************)
\* The text is the decimal numeral of n.
IsNumeral(text, n) ==
    /\ Len(text) > 0
    /\ AllDigits(text)
    /\ Len(text) > 1 => text[1] # "0"
    /\ DigitsValue(text) = n

\* The query holds a pair whose key is `key` and whose value is the numeral
\* of n.
HasNumber(query, key, n) ==
    \E i \in 1..Len(query) : query[i][1] = key /\ IsNumeral(query[i][2], n)

C14_CurrentPricesRequest ==
    \A c \in Calls :
        ( /\ Called(c)
          /\ args[c].method = "current_prices"
          /\ IsSome(args[c].previous)
          /\ IsSome(args[c].next)
          /\ IsSome(args[c].resolution) )
        => LET query == Request(c).query
           IN  /\ Request(c).url =
                      client.base_url \o "sites/" \o args[c].site_id
                          \o "/prices/current"
               /\ Len(query) = 3
               /\ HasNumber(query, "previous", args[c].previous[1])
               /\ HasNumber(query, "next", args[c].next[1])
               /\ HasNumber(query, "resolution",
                            Resolution_to_u32(args[c].resolution[1]))
               /\ \/ HasPair(query, "resolution", <<"5">>)
                  \/ HasPair(query, "resolution", <<"3", "0">>)
               /\ \A key \in {"previous", "next", "resolution"} :
                      Count(query, key) <= 1

C14_Witness ==
    /\ args[1] = current_prices_args("S1", Some(3), Some(2), Some("ThirtyMinute"))
    /\ Request(1).url = "https://api.amber.com.au/v1/sites/S1/prices/current"
    /\ HasPair(Request(1).query, "previous", <<"2">>)
    /\ HasPair(Request(1).query, "next", <<"3">>)
    /\ HasPair(Request(1).query, "resolution", <<"3", "0">>)

(***************************************************************************)
(* C15.  usage for the site id S always requests the path sites/S/usage    *)
(* with exactly two query pairs, startDate and endDate, each the ISO       *)
(* calendar form (YYYY-MM-DD) of the date supplied, and never sends a      *)
(* resolution parameter.                                                   *)
(***************************************************************************)
\* The text is ten characters long and reads as the date in the form
\* YYYY-MM-DD.
IsIsoDate(text, date) ==
    /\ Len(text) = 10
    /\ decode_Date(text) = Ok(date)

C15_UsageRequest ==
    \A c \in Calls :
        (Called(c) /\ args[c].method = "usage") =>
            LET query == Request(c).query
            IN  /\ Request(c).url =
                       client.base_url \o "sites/" \o args[c].site_id \o "/usage"
                /\ Len(query) = 2
                /\ \E i \in 1..2 :
                       /\ query[i][1] = "startDate"
                       /\ IsIsoDate(query[i][2], args[c].start_date)
                /\ \E i \in 1..2 :
                       /\ query[i][1] = "endDate"
                       /\ IsIsoDate(query[i][2], args[c].end_date)
                /\ Count(query, "resolution") = 0

C15_Witness ==
    /\ args[1] = usage_args("S2", Date(2021, 5, 5), Date(2024, 12, 31))
    /\ Request(1).url = "https://api.amber.com.au/v1/sites/S2/usage"
    /\ Request(1).query =
           << <<"startDate", <<"2", "0", "2", "1", "-", "0", "5", "-", "0", "5">> >>,
              <<"endDate", <<"2", "0", "2", "4", "-", "1", "2", "-", "3", "1">> >> >>

(***************************************************************************)
(* Vocabulary of the claims about decoding.                                *)
(***************************************************************************)
\* The last answer of the call of caller c is a response, and its body.
Answered(c) == Done(c) /\ ~Last(c).failed

Body(c) == Last(c).body

\* The call of caller c returned Ok; the records it returned.
Returned(c) == Done(c) /\ result[c].kind = "Ok"

Records(c) == result[c].value

\* The names of the variants of the tagged entities.
VariantNames(T) ==
    CASE T = "Interval" -> {"ActualInterval", "ForecastInterval", "CurrentInterval"}
      [] T = "Renewable" -> {"ActualRenewable", "ForecastRenewable", "CurrentRenewable"}
      [] OTHER -> {}

\* The object has no type field, or one that names no variant of T.
UnrecognizedTag(T, obj) ==
    ~Has(obj, "type") \/ obj.type \notin VariantNames(T)

(***************************************************************************)
(* C16.  Decoding an Interval or Renewable payload whose type field is not *)
(* one of the three variant names of that entity, or is missing, fails     *)
(* with an error: a call whose response body holds such an object returns  *)
(* an error, and every record a call returns has the variant its object's  *)
(* type field names.                                                       *)
(***************************************************************************)
C16_UnrecognizedTagFails ==
    \A c \in Calls :
        (Called(c) /\ args[c].T \in {"Interval", "Renewable"}) =>
            /\ ( /\ Answered(c)
                 /\ \E i \in 1..Len(Body(c).items) :
                        UnrecognizedTag(args[c].T, Body(c).items[i]) )
               => result[c] = Http("Json", 0)
            /\ Returned(c) =>
                   /\ Len(Records(c)) = Len(Body(c).items)
                   /\ \A i \in 1..Len(Records(c)) :
                          /\ Records(c)[i].variant \in VariantNames(args[c].T)
                          /\ Records(c)[i].variant = Body(c).items[i].type

C16_Witness ==
    /\ Answered(1)
    /\ args[1].method = "prices"
    /\ Body(1) = JsonArray(<<IntervalObject("ActualInterval", 5),
                             IntervalObject("FutureInterval", 5)>>)
    /\ result[1] = Http("Json", 0)

\* The entities that carry an interval of time.
TimedTypes == {"Interval", "Renewable", "Usage"}

\* The base (BaseInterval or BaseRenewable) of a returned record of type T.
BaseOf(T, record) ==
    IF T = "Usage" THEN record.base ELSE record.data.base

\* The call of caller c returned records that carry an interval of time.
ReturnedTimed(c) ==
    Called(c) /\ args[c].T \in TimedTypes /\ Returned(c)

(***************************************************************************)
(* C17.  Every Interval, Renewable or Usage record that an endpoint call   *)
(* returns successfully satisfies start_time < end_time, whatever body the *)
(* server sent.                                                            *)
(***************************************************************************)
C17_StartBeforeEnd ==
    \A c \in Calls :
        ReturnedTimed(c) =>
            \A i \in 1..Len(Records(c)) :
                BaseOf(args[c].T, Records(c)[i]).start_time
                    < BaseOf(args[c].T, Records(c)[i]).end_time

(***************************************************************************)
(* C18.  Every renewables percentage in a record returned successfully by  *)
(* an endpoint call lies in the closed range 0 to 100, whatever body the   *)
(* server sent.                                                            *)
(***************************************************************************)
C18_RenewablesInRange ==
    \A c \in Calls :
        ReturnedTimed(c) =>
            \A i \in 1..Len(Records(c)) :
                BaseOf(args[c].T, Records(c)[i]).renewables \in 0..100

(***************************************************************************)
(* C19.  Every record returned successfully has duration > 0, and when the *)
(* call supplied a resolution r every returned record has the duration of  *)
(* r in minutes (5 or 30).                                                 *)
(***************************************************************************)
C19_DurationMatchesResolution ==
    \A c \in Calls :
        ReturnedTimed(c) =>
            \A i \in 1..Len(Records(c)) :
                /\ BaseOf(args[c].T, Records(c)[i]).duration > 0
                /\ (args[c].method # "usage" /\ IsSome(args[c].resolution)) =>
                       BaseOf(args[c].T, Records(c)[i]).duration =
                           Resolution_to_u32(args[c].resolution[1])

(***************************************************************************)
(* C20.  Decoding a Site whose JSON has status "closed" and both           *)
(* activeFrom and closedOn yields status Closed with both optional dates   *)
(* populated; decoding a Site JSON that lacks closedOn (or activeFrom)     *)
(* succeeds and yields None for the missing field.                         *)
(* Stated of sites(): a 2xx response whose array holds the closed site of  *)
(* the repository's test, whole or without either date, is returned as Ok  *)
(* with one Site per object, and each Site has the dates its object has.   *)
(***************************************************************************)
\* The closed site, whole or lacking one or both of its dates.
ClosedSiteObjects ==
    {ClosedSiteObject,
     Without(ClosedSiteObject, "closedOn"),
     Without(ClosedSiteObject, "activeFrom"),
     Without(Without(ClosedSiteObject, "closedOn"), "activeFrom")}

C20_SiteOptionalDates ==
    \A c \in Calls :
        ( /\ Called(c)
          /\ args[c].method = "sites"
          /\ Answered(c)
          /\ Is2xx(Last(c).status)
          /\ Body(c).json = "array"
          /\ \A i \in 1..Len(Body(c).items) :
                 Body(c).items[i] \in ClosedSiteObjects )
        => /\ Returned(c)
           /\ Len(Records(c)) = Len(Body(c).items)
           /\ \A i \in 1..Len(Records(c)) :
                  LET obj == Body(c).items[i]
                      site == Records(c)[i]
                  IN  /\ site.status = "Closed"
                      /\ site.active_from =
                             IF Has(obj, "activeFrom")
                             THEN Some(Date(2022, 1, 1)) ELSE Absent
                      /\ site.closed_on =
                             IF Has(obj, "closedOn")
                             THEN Some(Date(2022, 5, 1)) ELSE Absent

C20_Witness ==
    /\ Returned(1)
    /\ args[1].method = "sites"
    /\ Body(1) = JsonArray(<<ClosedSiteObject,
                             Without(ClosedSiteObject, "closedOn")>>)
    /\ Records(1)[1].status = "Closed"
    /\ Records(1)[1].closed_on = Some(Date(2022, 5, 1))
    /\ Records(1)[2].closed_on = Absent

(***************************************************************************)
(* C21.  The list an endpoint call returns has the same length and the     *)
(* same element order as the JSON array in the response body: element i of *)
(* the result is the decoding of element i of the body.                    *)
(***************************************************************************)
C21_OrderPreserved ==
    \A c \in Calls :
        (Called(c) /\ Returned(c)) =>
            /\ Body(c).json = "array"
            /\ Len(Records(c)) = Len(Body(c).items)
            /\ \A i \in 1..Len(Records(c)) :
                   Ok(Records(c)[i]) = decode(args[c].T, Body(c).items[i])

C21_Witness ==
    /\ Returned(1)
    /\ args[1].method = "current_prices"
    /\ Body(1) = JsonArray(<<IntervalObject("ActualInterval", 5),
                             ForecastIntervalObject>>)
    /\ Records(1)[1].variant = "ActualInterval"
    /\ Records(1)[2].variant = "ForecastInterval"

(***************************************************************************)
(* C22.  No endpoint call changes the client's credential, base URL or     *)
(* retry policy: no step of any call, successful or failed, interleaved    *)
(* with the steps of another call in any way, changes them, so after any   *)
(* sequence of calls they equal their values at construction.              *)
(***************************************************************************)
C22_ClientUnchanged ==
    [][ /\ client'.api_key = client.api_key
        /\ client'.base_url = client.base_url
        /\ client'.agent = client.agent
        /\ policy' = policy ]_vars

\* Two interleaved calls have returned, one with a value and one with an
\* error.
C22_Witness ==
    /\ Done(1)
    /\ Done(2)
    /\ result[1].kind = "Ok"
    /\ result[2].kind = "Http"
    /\ client.api_key = "psk_1"

(***************************************************************************)
(* Vocabulary of the claims about callers sharing the client.              *)
(***************************************************************************)
\* Caller d can take its next step: issue its request when idle, get its
\* answer and return when in flight.
CanProceed(d) ==
    /\ pc[d] = "idle" => ENABLED sites(d)
    /\ pc[d] = "in_flight" => ENABLED get_return(d)

\* The call of caller c has received a 429 that the documented policy
\* answers with a backoff wait and another request.
OwesBackoff(c) ==
    /\ answered[c] >= 1
    /\ Is429(Received(c, 1))
    /\ policy.retry_on_rate_limit
    /\ policy.max_retries > 0

Attempts(c) == answered[c] + IF pc[c] = "in_flight" THEN 1 ELSE 0

(***************************************************************************)
(* C24.  Two concurrent calls to the same endpoint with the same           *)
(* parameters on the same client each issue their own request: the number  *)
(* of requests sent equals the sum of the attempts of the two calls, and   *)
(* neither call reuses the other's response (each returns what the answer  *)
(* to its own request gives, whatever the other call was answered).        *)
(***************************************************************************)
C24_NoCoalescing ==
    \A c \in Calls : \A d \in Calls \ {c} :
        (Called(c) /\ Called(d) /\ args[c] = args[d]) =>
            /\ Requests(c) >= 1
            /\ Requests(d) >= 1
            /\ Requests(c) + Requests(d) = Attempts(c) + Attempts(d)
            /\ (Done(c) /\ Received(c, 1) = Response(200, None, EmptyArray))
                   => result[c] = Ok(<<>>)
            /\ (Done(c) /\ Received(c, 1).failed)
                   => result[c] = Http(Received(c, 1).kind, 0)

\* Two calls of sites() were in flight together; one was answered with an
\* empty list and the other with a transport failure.
C24_Witness ==
    /\ Done(1)
    /\ Done(2)
    /\ args[1] = args[2]
    /\ Request(1) = Request(2)
    /\ Received(1, 1) = Response(200, None, EmptyArray)
    /\ Received(2, 1) = Failure("Io")
    /\ result[1] = Ok(<<>>)
    /\ result[2] = Http("Io", 0)

\* The Authorization header of a request made with the key option k.
Bearer(k) == IF k = None THEN None ELSE "Bearer " \o k

(***************************************************************************)
(* C25.  The default client reads AMBER_API_KEY once, when it is built:    *)
(* whatever the environment held then (a key, an empty value, nothing)     *)
(* decides the credential of every later request, and a later change of    *)
(* the environment changes neither the client's credential nor what its    *)
(* calls send.                                                             *)
(***************************************************************************)
C25_KeyReadAtConstruction ==
    /\ [][env' # env => client' = client]_vars
    /\ \A e \in EnvValues :
           (env = e) =>
               [](/\ client.api_key = (IF e \in {NotPresent, ""} THEN None ELSE e)
                  /\ \A c \in Calls :
                         Called(c) =>
                             Request(c).auth =
                                 Bearer(IF e \in {NotPresent, ""} THEN None ELSE e))

\* A client built while the variable held a key has sent a request with
\* that key after the variable was removed.
C25_Witness ==
    /\ env = NotPresent
    /\ client.api_key = "psk_1"
    /\ Done(1)
    /\ Request(1).auth = "Bearer psk_1"

\* A client built without the variable stays unauthenticated once it is set.
C25_WitnessUnset ==
    /\ env = "psk_1"
    /\ client.api_key = None
    /\ Done(1)
    /\ Request(1).auth = None

(***************************************************************************)
(* C26.  A client constructed without retry options has retries enabled    *)
(* with a positive maximum, so it handles a rate-limit response            *)
(* automatically: a call of the default client that is answered 429 sends  *)
(* its request again instead of returning after the first answer.          *)
(***************************************************************************)
C26_DefaultClientRetries ==
    /\ policy.retry_on_rate_limit
    /\ policy.max_retries > 0
    /\ \A c \in Calls :
           (Done(c) /\ Is429(Received(c, 1))) => Requests(c) >= 2

RequiredKeys(tag) ==
    CASE tag \in VariantNames("Interval") ->
             {"type", "duration", "spotPerKwh", "perKwh", "date", "nemTime",
              "startTime", "endTime", "renewables", "channelType",
              "spikeStatus", "descriptor"}
                 \cup (IF tag = "CurrentInterval" THEN {"estimate"} ELSE {})
      [] tag \in VariantNames("Renewable") ->
             {"type", "duration", "date", "nemTime", "startTime", "endTime",
              "renewables", "descriptor"}

\* The fields of the struct the variant holds.
FieldsOf(tag) ==
    CASE tag = "ForecastInterval" -> {"base", "range", "advanced_price"}
      [] tag = "CurrentInterval" -> {"base", "range", "estimate", "advanced_price"}
      [] OTHER -> {"base"}

\* The object is a complete payload of a variant of T: its tag names the
\* variant, every required key is there, and its descriptor is one of T's.
Complete(T, obj) ==
    /\ Has(obj, "type")
    /\ obj.type \in VariantNames(T)
    /\ RequiredKeys(obj.type) \subseteq DOMAIN obj
    /\ obj.descriptor \in
           DOMAIN (IF T = "Interval" THEN PriceDescriptor ELSE RenewableDescriptor)

(***************************************************************************)
(* C28.  Decoding an Interval or Renewable payload whose type tag is one   *)
(* of the variant names, with that variant's fields complete, yields       *)
(* exactly that variant: a call answered with such payloads returns, and   *)
(* record i is the variant named by the tag of payload i, holding that     *)
(* variant's struct.                                                       *)
(***************************************************************************)
C28_TagSelectsVariant ==
    \A c \in Calls :
        ( /\ Called(c)
          /\ args[c].T \in {"Interval", "Renewable"}
          /\ Answered(c)
          /\ Is2xx(Last(c).status)
          /\ Body(c).json = "array"
          /\ \A i \in 1..Len(Body(c).items) : Complete(args[c].T, Body(c).items[i]) )
        => /\ Returned(c)
           /\ Len(Records(c)) = Len(Body(c).items)
           /\ \A i \in 1..Len(Records(c)) :
                  /\ Records(c)[i].variant = Body(c).items[i].type
                  /\ DOMAIN Records(c)[i].data = FieldsOf(Body(c).items[i].type)
                  /\ Records(c)[i].data.base.duration = Body(c).items[i].duration

\* The renewables endpoint returned a forecast and a current record.
C28_Witness ==
    /\ Returned(1)
    /\ args[1].method = "current_renewables"
    /\ Body(1) = JsonArray(<<RenewableObject("ForecastRenewable", 30),
                             RenewableObject("CurrentRenewable", 5)>>)
    /\ Records(1)[1].variant = "ForecastRenewable"
    /\ Records(1)[2].variant = "CurrentRenewable"

\* The prices endpoint returned a current and a forecast record.
C28_WitnessInterval ==
    /\ Returned(1)
    /\ args[1].T = "Interval"
    /\ Body(1) = JsonArray(<<CurrentIntervalObject, ForecastIntervalObject>>)
    /\ Records(1)[1].variant = "CurrentInterval"
    /\ Records(1)[1].data.estimate = TRUE
    /\ Records(1)[2].variant = "ForecastInterval"

\* The optional member of a decoded struct that the payload's key gives.
RangeOf(obj) ==
    IF Has(obj, "range")
    THEN Some([min |-> obj.range.min, max |-> obj.range.max])
    ELSE Absent

AdvancedPriceOf(obj) ==
    IF Has(obj, "advancedPrice")
    THEN Some([low |-> obj.advancedPrice.low,
               predicted |-> obj.advancedPrice.predicted,
               high |-> obj.advancedPrice.high])
    ELSE Absent

\* An interval payload with a variant's tag and the members every interval
\* has.
BaseComplete(obj) ==
    /\ Has(obj, "type")
    /\ obj.type \in VariantNames("Interval")
    /\ RequiredKeys("ActualInterval") \subseteq DOMAIN obj
    /\ obj.descriptor \in DOMAIN PriceDescriptor

LacksEstimate(obj) == obj.type = "CurrentInterval" /\ ~Has(obj, "estimate")

(***************************************************************************)
(* C29.  In the Forecast and Current variants of Interval, range and       *)
(* advancedPrice are optional: a payload without them decodes, with the    *)
(* field absent, and one with them decodes with the field present.  A      *)
(* Current payload without estimate fails to decode.  The Actual variant   *)
(* never carries range, advancedPrice or estimate.                         *)
(***************************************************************************)
C29_OptionalMembers ==
    \A c \in Calls :
        ( /\ Called(c)
          /\ args[c].T = "Interval"
          /\ Answered(c)
          /\ Is2xx(Last(c).status)
          /\ Body(c).json = "array"
          /\ \A i \in 1..Len(Body(c).items) : BaseComplete(Body(c).items[i]) )
        => IF \E i \in 1..Len(Body(c).items) : LacksEstimate(Body(c).items[i])
           THEN result[c] = Http("Json", 0)
           ELSE /\ Returned(c)
                /\ Len(Records(c)) = Len(Body(c).items)
                /\ \A i \in 1..Len(Records(c)) :
                       LET obj == Body(c).items[i]
                           data == Records(c)[i].data
                       IN  IF obj.type = "ActualInterval"
                           THEN DOMAIN data = {"base"}
                           ELSE /\ data.range = RangeOf(obj)
                                /\ data.advanced_price = AdvancedPriceOf(obj)
                                /\ obj.type = "CurrentInterval" =>
                                       data.estimate = obj.estimate

\* A forecast without range and a current interval without either member
\* were decoded.
C29_Witness ==
    /\ Returned(1)
    /\ Body(1) = JsonArray(<<Without(ForecastIntervalObject, "range"),
                             CurrentIntervalObject>>)
    /\ Records(1)[1].variant = "ForecastInterval"
    /\ Records(1)[1].data.range = Absent
    /\ Records(1)[1].data.advanced_price =
           Some([low |-> 1, predicted |-> 3, high |-> 10])
    /\ Records(1)[2].variant = "CurrentInterval"
    /\ Records(1)[2].data.range = Absent
    /\ Records(1)[2].data.advanced_price = Absent

\* A current interval without estimate made the call fail.
C29_WitnessEstimate ==
    /\ Answered(1)
    /\ Body(1) = JsonArray(<<Without(CurrentIntervalObject, "estimate")>>)
    /\ result[1] = Http("Json", 0)

\* An actual payload with foreign members decoded to its base alone.
C29_WitnessActual ==
    /\ Returned(1)
    /\ Body(1) = JsonArray(<<With(With(IntervalObject("ActualInterval", 5),
                                       "range", [min |-> 1, max |-> 10]),
                                  "estimate", TRUE)>>)
    /\ DOMAIN Records(1)[1].data = {"base"}

(***************************************************************************)
(* Vocabulary of the claim about the text of an AdvancedPrice.             *)
(***************************************************************************)
\* The position of the label (a letter followed by a colon) in the text.
LabelAt(text, label) ==
    CHOOSE i \in 1..(Len(text) - 1) : text[i] = label /\ text[i + 1] = ":"

\* The characters from position `from` up to the next space.
WordFrom(text, from) ==
    LET last == CHOOSE j \in from..(Len(text) - 1) :
                    /\ text[j + 1] = " "
                    /\ \A k \in from..j : text[k] # " "
    IN  SubSeq(text, from, last)

\* The hundredths a decimal number with two decimals denotes.
Hundredths(number) ==
    LET point == CHOOSE k \in 1..Len(number) : number[k] = "."
    IN  100 * DigitsValue(SubSeq(number, 1, point - 1))
            + DigitsValue(SubSeq(number, point + 1, Len(number)))

\* The number that follows the label in the text, in hundredths.
NumberAfter(text, label) ==
    Hundredths(WordFrom(text, LabelAt(text, label) + 2))

C30_LabelsAsWritten ==
    shown.text # NoText =>
        /\ NumberAfter(shown.text, "L") = shown.price[1].low
        /\ NumberAfter(shown.text, "H") = shown.price[1].predicted
        /\ NumberAfter(shown.text, "P") = shown.price[1].high

\* models.rs:1501-1509: the price 1.23 / 4.56 / 7.89 and its text.
C30_Shown ==
    /\ shown.price = Some([low |-> 123, predicted |-> 456, high |-> 789])
    /\ shown.text = <<"L", ":", "1", ".", "2", "3", " ",
                      "H", ":", "4", ".", "5", "6", " ",
                      "P", ":", "7", ".", "8", "9", " ",
                      "c", "/", "k", "W", "h">>
====
